---- MODULE Spec2Model ----
(***************************************************************************)
(* Model of Scripts/invoke_bedrock.py: one linear run                      *)
(*   read input file -> create client -> invoke_model -> parse response    *)
(*   -> write output file -> print status line -> exit code                *)
(* with the two except clauses (ClientError, Exception), the usage gate of *)
(* the __main__ block, a file system that outlives the process, and the    *)
(* possibility of running the script again on the same command line.       *)
(***************************************************************************)
EXTENDS Integers, Sequences, FiniteSets, TLC

\* ------------------------------------------------------------------ bounds
MaxArgs == 4        \* positional arguments tried on the command line: 0..MaxArgs
MaxRuns == 2        \* how many times the script is run on the same command line

\* ------------------------------------------------------- JSON text / values
\* A text (file content, response body, request body) is a sequence of tokens.
\*   t = "p"  punctuation            v in { "{", "}", ":", "," }
\*   t = "w"  whitespace             v in { "nl", "sp", "ind" }
\*   t = "s"  string literal         v = the string, esc = written with \uXXXX escapes
Tok(t, v, e) == [t |-> t, v |-> v, esc |-> e]
LB    == Tok("p", "{", FALSE)
RB    == Tok("p", "}", FALSE)
COLON == Tok("p", ":", FALSE)
COMMA == Tok("p", ",", FALSE)
NL    == Tok("w", "nl", FALSE)
SP    == Tok("w", "sp", FALSE)
IND   == Tok("w", "ind", FALSE)
Lit(s) == Tok("s", s, FALSE)
Esc(s) == Tok("s", s, TRUE)

\* strings that hold characters outside ASCII
NonAscii == {"nihao"}

\* A JSON value: a string, or an object whose members keep insertion order.
StrVal(s) == [type |-> "str", s |-> s, members |-> <<>>]
ObjVal(m) == [type |-> "obj", s |-> "", members |-> m]

RECURSIVE StripWs(_)
StripWs(text) ==
    IF text = <<>> THEN <<>>
    ELSE IF Head(text).t = "w" THEN StripWs(Tail(text))
    ELSE <<Head(text)>> \o StripWs(Tail(text))

\* dict[key] = value as Python does it: a repeated key keeps its first
\* position and takes the last value.
RECURSIVE SetMember(_, _, _)
SetMember(members, k, v) ==
    IF members = <<>> THEN <<<<k, v>>>>
    ELSE IF Head(members)[1] = k THEN <<<<k, v>>>> \o Tail(members)
    ELSE <<Head(members)>> \o SetMember(Tail(members), k, v)

\* members of an object after the opening brace: toks is what follows a "{" or ","
\* result: [ok, members]
RECURSIVE ParseMembers(_, _)
ParseMembers(toks, acc) ==
    IF Len(toks) < 4 THEN [ok |-> FALSE, members |-> <<>>]
    ELSE IF toks[1].t # "s" \/ toks[2] # COLON \/ toks[3].t # "s"
         THEN [ok |-> FALSE, members |-> <<>>]
    ELSE LET acc2 == SetMember(acc, toks[1].v, toks[3].v)
         IN  IF toks[4] = RB
             THEN [ok |-> Len(toks) = 4, members |-> acc2]
             ELSE IF toks[4] = COMMA
                  THEN ParseMembers(SubSeq(toks, 5, Len(toks)), acc2)
                  ELSE [ok |-> FALSE, members |-> <<>>]

\* json.load / json.loads: [ok, value, msg]; msg is the JSONDecodeError message
JsonLoads(text) ==
    LET toks == StripWs(text)
        bad(m) == [ok |-> FALSE, value |-> StrVal(""), msg |-> m]
        good(x) == [ok |-> TRUE, value |-> x, msg |-> ""]
    IN  IF toks = <<>> THEN bad("Expecting value")
        ELSE IF toks[1].t = "s"
             THEN IF Len(toks) = 1 THEN good(StrVal(toks[1].v)) ELSE bad("Extra data")
        ELSE IF toks[1] = LB
             THEN IF Len(toks) >= 2 /\ toks[2] = RB
                  THEN IF Len(toks) = 2 THEN good(ObjVal(<<>>)) ELSE bad("Extra data")
                  ELSE LET r == ParseMembers(Tail(toks), <<>>)
                       IN  IF r.ok THEN good(ObjVal(r.members))
                           ELSE bad("Expecting property name enclosed in double quotes")
        ELSE bad("Expecting value")

\* json.dumps(obj): compact separators ", " and ": ", ensure_ascii=True
RECURSIVE DumpsMembers(_)
DumpsMembers(m) ==
    IF m = <<>> THEN <<>>
    ELSE <<Tok("s", Head(m)[1], Head(m)[1] \in NonAscii), COLON, SP,
           Tok("s", Head(m)[2], Head(m)[2] \in NonAscii)>>
         \o (IF Len(m) > 1 THEN <<COMMA, SP>> ELSE <<>>)
         \o DumpsMembers(Tail(m))

JsonDumps(x) ==
    IF x.type = "str" THEN <<Tok("s", x.s, x.s \in NonAscii)>>
    ELSE <<LB>> \o DumpsMembers(x.members) \o <<RB>>

\* variant of the indented dump with ensure_ascii left at its default
RECURSIVE DumpMembersIndentAscii(_)
DumpMembersIndentAscii(m) ==
    IF m = <<>> THEN <<>>
    ELSE <<NL, IND, Tok("s", Head(m)[1], Head(m)[1] \in NonAscii), COLON, SP,
           Tok("s", Head(m)[2], Head(m)[2] \in NonAscii)>>
         \o (IF Len(m) > 1 THEN <<COMMA>> ELSE <<NL>>)
         \o DumpMembersIndentAscii(Tail(m))

JsonDumpIndentAscii(x) ==
    IF x.type = "str" THEN <<Tok("s", x.s, x.s \in NonAscii)>>
    ELSE IF x.members = <<>> THEN <<LB, RB>>
    ELSE <<LB>> \o DumpMembersIndentAscii(x.members) \o <<RB>>

\* json.dump(obj, f, ensure_ascii=False, indent=2): the chunks written to f
RECURSIVE DumpMembersIndent(_)
DumpMembersIndent(m) ==
    IF m = <<>> THEN <<>>
    ELSE <<NL, IND, Lit(Head(m)[1]), COLON, SP, Lit(Head(m)[2])>>
         \o (IF Len(m) > 1 THEN <<COMMA>> ELSE <<NL>>)
         \o DumpMembersIndent(Tail(m))

JsonDumpIndent(x) ==
    IF x.type = "str" THEN <<Lit(x.s)>>
    ELSE IF x.members = <<>> THEN <<LB, RB>>
    ELSE <<LB>> \o DumpMembersIndent(x.members) \o <<RB>>

\* ------------------------------------------------------------- the universe
Paths    == {"in.json", "out.json"}
ModelIds == {"nova-lite", "nova-pro"}
Absent   == <<Tok("absent", "", FALSE)>>      \* marks a path with no file

\* contents a file can have before the first run
FileTexts ==
    { <<LB, Lit("prompt"), COLON, Lit("hi"), RB>>,      \* {"prompt":"hi"}
      <<LB, Lit("prompt")>>,                            \* truncated JSON
      <<Lit("old")>> }                                  \* "old"

\* bodies the remote endpoint can answer with
Bodies ==
    { <<LB, Lit("reply"), COLON, Lit("ok"), RB>>,                       \* {"reply":"ok"}
      <<LB, Lit("reply"), COLON, Esc("nihao"), RB>>,                    \* escaped non-ASCII
      <<LB, Lit("a"), COLON, Lit("ok"), COMMA, Lit("a"), COLON, Lit("hi"), RB>>,
      <<LB, Lit("reply"), COLON>> }                                     \* not JSON

\* --------------------------------------------------------------- exceptions
\* An exception object: its class and the arguments its message is built from.
Exc(cls, a, b) == [cls |-> cls, a |-> a, b |-> b]
NoExc == Exc("None", "", "")

FileNotFoundError(path) == Exc("FileNotFoundError", "No such file or directory", path)
PermissionError(path)   == Exc("PermissionError", "Permission denied", path)
NoSpaceError            == Exc("OSError", "No space left on device", "")
JSONDecodeError(msg)    == Exc("JSONDecodeError", msg, "line 1 column 1 (char 0)")
UnknownServiceError     == Exc("UnknownServiceError", "bedrock-runtime", "")
EndpointConnectionError == Exc("EndpointConnectionError", "https://bedrock-runtime.ap-northeast-1.amazonaws.com/", "")
NoCredentialsError      == Exc("NoCredentialsError", "Unable to locate credentials", "")
\* botocore's ClientError: error code and message of the service's error response
ClientError(code, msg)  == Exc("ClientError", code, msg)

\* errno of the OSError subclasses
Errno(e) ==
    IF e.cls = "FileNotFoundError" THEN "2"
    ELSE IF e.cls = "PermissionError" THEN "13"
    ELSE "28"

\* str(e), as a sequence of text pieces
Str(e) ==
    IF e.cls \in {"FileNotFoundError", "PermissionError", "OSError"}
    THEN <<"[Errno ", Errno(e), "] ", e.a>> \o (IF e.b = "" THEN <<>> ELSE <<": '", e.b, "'">>)
    ELSE IF e.cls = "JSONDecodeError" THEN <<e.a, ": ", e.b>>
    ELSE IF e.cls = "UnknownServiceError" THEN <<"Unknown service: '", e.a, "'">>
    ELSE IF e.cls = "EndpointConnectionError"
         THEN <<"Could not connect to the endpoint URL: ", e.a>>
    ELSE IF e.cls = "NoCredentialsError" THEN <<e.a>>
    ELSE IF e.cls = "ClientError"
         THEN <<"An error occurred (", e.a, ") when calling the InvokeModel operation: ", e.b>>
    ELSE <<>>

\* variants of the first except clause: never taken / taken for every exception
IsClientErrorNever(e) == FALSE
IsClientErrorAny(e) == e.cls # "None"

\* isinstance(e, ClientError): the first except clause
IsClientError(e) == e.cls = "ClientError"

\* What the call of invoke_model can end in, and the exception it raises then.
\* An error response of the endpoint (request rejected, throttled, not
\* authorised) is raised as ClientError; a connection that cannot be made and
\* credentials that cannot be found are raised by the client library as
\* EndpointConnectionError and NoCredentialsError, which are not ClientErrors.
RemoteOutcomes == {"ok", "rejected", "throttled", "unauthorized", "network", "no_credentials"}

InvokeError(outcome) ==
    IF outcome = "rejected" THEN ClientError("ValidationException", "Malformed input request")
    ELSE IF outcome = "throttled" THEN ClientError("ThrottlingException", "Too many requests")
    ELSE IF outcome = "unauthorized" THEN ClientError("AccessDeniedException", "Not authorized")
    ELSE IF outcome = "no_credentials" THEN NoCredentialsError
    ELSE EndpointConnectionError

\* ------------------------------------------------------------------- state
VARIABLES
    argv,           \* sys.argv of the command line (the same for every run)
    fs,             \* file system: path -> text, or Absent
    run,            \* number of the current run of the script
    pc,             \* position of the process
    handles,        \* open file handles: records [path, mode]
    request_body,   \* local of invoke_bedrock
    bedrock,        \* local: the client
    response,       \* local: the response of invoke_model (its body stream)
    response_body,  \* local: parsed response
    exc,            \* exception in flight, or NoExc
    stdout,         \* lines printed by this run
    exitCode,       \* exit code of this run, -1 while it runs
    calls,          \* invoke_model calls issued by this run
    opens,          \* open() calls issued by this run
    outcome,        \* how this run's invoke_model call ended ("none" before it)
    failedAt,       \* position at which this run raised ("none" if it did not)
    fs0,            \* the file system when this run started
    prev            \* what the previous run left: [exitCode, body, out]

vars == <<argv, fs, run, pc, handles, request_body, bedrock, response, response_body,
          exc, stdout, exitCode, calls, opens, outcome, failedAt, fs0, prev>>

None     == [type |-> "none", s |-> "", members |-> <<>>]
NoClient == [service_name |-> "", region_name |-> ""]
NoBody   == <<Tok("none", "", FALSE)>>
NoPrev   == [exitCode |-> -1, body |-> NoBody, out |-> Absent]

model_id    == argv[2]
input_file  == argv[3]
output_file == argv[4]

\* a command line with n positional arguments
CommandLine(n, m, i, o) ==
    [k \in 1..(n + 1) |->
        IF k = 1 THEN "invoke_bedrock.py"
        ELSE IF k = 2 THEN m
        ELSE IF k = 3 THEN i
        ELSE IF k = 4 THEN o
        ELSE "extra"]

\* the locals of a freshly started process
Fresh ==
    /\ pc = "main"
    /\ handles = {}
    /\ request_body = None
    /\ bedrock = NoClient
    /\ response = NoBody
    /\ response_body = None
    /\ exc = NoExc
    /\ stdout = <<>>
    /\ exitCode = -1
    /\ calls = <<>>
    /\ opens = <<>>
    /\ outcome = "none"
    /\ failedAt = "none"

Init ==
    /\ \E n \in 0..MaxArgs, m \in ModelIds, i \in Paths, o \in Paths :
          argv = CommandLine(n, m, i, o)
    /\ fs \in [Paths -> FileTexts \cup {Absent}]
    /\ run = 1
    /\ Fresh
    /\ fs0 = fs
    /\ prev = NoPrev

\* ----------------------------------------------------------------- helpers
Handle(path, mode) == [path |-> path, mode |-> mode]

\* raise e at position at; the process continues at position to
Raise(e, at, to) ==
    /\ exc' = e
    /\ failedAt' = at
    /\ pc' = to

\* the three status lines of invoke_bedrock and the usage line of __main__
SuccessLine == [success |-> TRUE, message |-> "API call successful"]
ErrorLine(label, e) == [success |-> FALSE, error |-> label, details |-> Str(e)]
UsageLine == [text |-> "Usage: python3 invoke_bedrock.py <model_id> <input.json> <output.json>"]

IsJsonLine(l) == "success" \in DOMAIN l

\* ------------------------------------------------------------------ actions
\* variant of the gate: only too few arguments are refused
MainAtLeast ==
    /\ pc = "main"
    /\ IF Len(argv) < 4
       THEN /\ stdout' = Append(stdout, UsageLine)
            /\ exitCode' = 1
            /\ pc' = "exited"
       ELSE /\ pc' = "open_input"
            /\ UNCHANGED <<stdout, exitCode>>
    /\ UNCHANGED <<argv, fs, run, handles, request_body, bedrock, response, response_body,
                   exc, calls, opens, outcome, failedAt, fs0, prev>>

\* __main__: the argument-count gate
Main ==
    /\ pc = "main"
    /\ IF Len(argv) # 4
       THEN /\ stdout' = Append(stdout, UsageLine)
            /\ exitCode' = 1
            /\ pc' = "exited"
       ELSE /\ pc' = "open_input"
            /\ UNCHANGED <<stdout, exitCode>>
    /\ UNCHANGED <<argv, fs, run, handles, request_body, bedrock, response, response_body,
                   exc, calls, opens, outcome, failedAt, fs0, prev>>

\* open(input_file, 'r', encoding='utf-8')
OpenInput ==
    /\ pc = "open_input"
    /\ opens' = Append(opens, Handle(input_file, "r"))
    /\ IF fs[input_file] = Absent
       THEN /\ Raise(FileNotFoundError(input_file), "open_input", "except")
            /\ UNCHANGED handles
       ELSE \E denied \in BOOLEAN :
              IF denied
              THEN /\ Raise(PermissionError(input_file), "open_input", "except")
                   /\ UNCHANGED handles
              ELSE /\ handles' = handles \cup {Handle(input_file, "r")}
                   /\ pc' = "load_input"
                   /\ UNCHANGED <<exc, failedAt>>
    /\ UNCHANGED <<argv, fs, run, request_body, bedrock, response, response_body,
                   stdout, exitCode, calls, outcome, fs0, prev>>

\* request_body = json.load(f)
LoadInput ==
    /\ pc = "load_input"
    /\ LET r == JsonLoads(fs[input_file])
       IN  IF r.ok
           THEN /\ request_body' = r.value
                /\ pc' = "close_input"
                /\ UNCHANGED <<exc, failedAt>>
           ELSE /\ Raise(JSONDecodeError(r.msg), "load_input", "close_input")
                /\ UNCHANGED request_body
    /\ UNCHANGED <<argv, fs, run, handles, bedrock, response, response_body,
                   stdout, exitCode, calls, opens, outcome, fs0, prev>>

\* variant without the with block: f.close() is skipped when json.load raises
CloseInputOnSuccessOnly ==
    /\ pc = "close_input"
    /\ handles' = IF exc # NoExc THEN handles ELSE handles \ {Handle(input_file, "r")}
    /\ pc' = IF exc # NoExc THEN "except" ELSE "client"
    /\ UNCHANGED <<argv, fs, run, request_body, bedrock, response, response_body,
                   exc, stdout, exitCode, calls, opens, outcome, failedAt, fs0, prev>>

\* leaving the with block of the input file: f is closed, an exception goes on
CloseInput ==
    /\ pc = "close_input"
    /\ handles' = handles \ {Handle(input_file, "r")}
    /\ pc' = IF exc # NoExc THEN "except" ELSE "client"
    /\ UNCHANGED <<argv, fs, run, request_body, bedrock, response, response_body,
                   exc, stdout, exitCode, calls, opens, outcome, failedAt, fs0, prev>>

\* bedrock = boto3.client(service_name='bedrock-runtime', region_name='ap-northeast-1')
CreateClient ==
    /\ pc = "client"
    /\ \E known \in BOOLEAN :
          IF known
          THEN /\ bedrock' = [service_name |-> "bedrock-runtime",
                              region_name |-> "ap-northeast-1"]
               /\ pc' = "invoke"
               /\ UNCHANGED <<exc, failedAt>>
          ELSE /\ Raise(UnknownServiceError, "client", "except")
               /\ UNCHANGED bedrock
    /\ UNCHANGED <<argv, fs, run, handles, request_body, response, response_body,
                   stdout, exitCode, calls, opens, outcome, fs0, prev>>

\* response = bedrock.invoke_model(modelId=model_id, body=json.dumps(request_body))
InvokeModel ==
    /\ pc = "invoke"
    /\ calls' = Append(calls, [modelId |-> model_id, body |-> JsonDumps(request_body)])
    /\ \E o \in RemoteOutcomes :
          /\ outcome' = o
          /\ IF o = "ok"
             THEN /\ \E b \in Bodies : response' = b
                  /\ pc' = "parse_response"
                  /\ UNCHANGED <<exc, failedAt>>
             ELSE /\ Raise(InvokeError(o), "invoke", "except")
                  /\ UNCHANGED response
    /\ UNCHANGED <<argv, fs, run, handles, request_body, bedrock, response_body,
                   stdout, exitCode, opens, fs0, prev>>

\* variant in which the output file is opened before the response is parsed
ParseResponseAfterOpen ==
    /\ pc = "parse_response"
    /\ LET r == JsonLoads(response)
       IN  IF r.ok
           THEN /\ response_body' = r.value
                /\ pc' = "open_output"
                /\ UNCHANGED <<exc, failedAt, fs>>
           ELSE /\ Raise(JSONDecodeError(r.msg), "parse_response", "except")
                /\ fs' = [fs EXCEPT ![output_file] = <<>>]
                /\ UNCHANGED response_body
    /\ UNCHANGED <<argv, run, handles, request_body, bedrock, response,
                   stdout, exitCode, calls, opens, outcome, fs0, prev>>

\* response_body = json.loads(response['body'].read())
ParseResponse ==
    /\ pc = "parse_response"
    /\ LET r == JsonLoads(response)
       IN  IF r.ok
           THEN /\ response_body' = r.value
                /\ pc' = "open_output"
                /\ UNCHANGED <<exc, failedAt>>
           ELSE /\ Raise(JSONDecodeError(r.msg), "parse_response", "except")
                /\ UNCHANGED response_body
    /\ UNCHANGED <<argv, fs, run, handles, request_body, bedrock, response,
                   stdout, exitCode, calls, opens, outcome, fs0, prev>>

\* variant opening the output with mode 'a': an existing file is kept
OpenOutputAppend ==
    /\ pc = "open_output"
    /\ opens' = Append(opens, Handle(output_file, "w"))
    /\ \E denied \in BOOLEAN :
          IF denied
          THEN /\ Raise(PermissionError(output_file), "open_output", "except")
               /\ UNCHANGED <<fs, handles>>
          ELSE /\ fs' = [fs EXCEPT ![output_file] = IF @ = Absent THEN <<>> ELSE @]
               /\ handles' = handles \cup {Handle(output_file, "w")}
               /\ pc' = "dump"
               /\ UNCHANGED <<exc, failedAt>>
    /\ UNCHANGED <<argv, run, request_body, bedrock, response, response_body,
                   stdout, exitCode, calls, outcome, fs0, prev>>

\* open(output_file, 'w', encoding='utf-8'): creates the file or truncates it
OpenOutput ==
    /\ pc = "open_output"
    /\ opens' = Append(opens, Handle(output_file, "w"))
    /\ \E denied \in BOOLEAN :
          IF denied
          THEN /\ Raise(PermissionError(output_file), "open_output", "except")
               /\ UNCHANGED <<fs, handles>>
          ELSE /\ fs' = [fs EXCEPT ![output_file] = <<>>]
               /\ handles' = handles \cup {Handle(output_file, "w")}
               /\ pc' = "dump"
               /\ UNCHANGED <<exc, failedAt>>
    /\ UNCHANGED <<argv, run, request_body, bedrock, response, response_body,
                   stdout, exitCode, calls, outcome, fs0, prev>>

\* json.dump(response_body, f, ensure_ascii=False, indent=2): the chunks are
\* written in order; the device can fail before any chunk
Dump ==
    /\ pc = "dump"
    /\ LET chunks == JsonDumpIndent(response_body)
       IN  \E k \in 0..Len(chunks) :
              /\ fs' = [fs EXCEPT ![output_file] = @ \o SubSeq(chunks, 1, k)]
              /\ IF k < Len(chunks)
                 THEN Raise(NoSpaceError, "dump", "close_output")
                 ELSE /\ pc' = "close_output"
                      /\ UNCHANGED <<exc, failedAt>>
    /\ UNCHANGED <<argv, run, handles, request_body, bedrock, response, response_body,
                   stdout, exitCode, calls, opens, outcome, fs0, prev>>

\* variant that removes the output file when the write raised
CloseOutputCleanup ==
    /\ pc = "close_output"
    /\ handles' = handles \ {Handle(output_file, "w")}
    /\ fs' = IF exc # NoExc THEN [fs EXCEPT ![output_file] = Absent] ELSE fs
    /\ pc' = IF exc # NoExc THEN "except" ELSE "print_success"
    /\ UNCHANGED <<argv, run, request_body, bedrock, response, response_body,
                   exc, stdout, exitCode, calls, opens, outcome, failedAt, fs0, prev>>

\* leaving the with block of the output file: f is closed, an exception goes on
CloseOutput ==
    /\ pc = "close_output"
    /\ handles' = handles \ {Handle(output_file, "w")}
    /\ pc' = IF exc # NoExc THEN "except" ELSE "print_success"
    /\ UNCHANGED <<argv, fs, run, request_body, bedrock, response, response_body,
                   exc, stdout, exitCode, calls, opens, outcome, failedAt, fs0, prev>>

\* print(json.dumps({"success": True, ...})); return 0; sys.exit(0)
PrintSuccess ==
    /\ pc = "print_success"
    /\ stdout' = Append(stdout, SuccessLine)
    /\ exitCode' = 0
    /\ pc' = "exited"
    /\ UNCHANGED <<argv, fs, run, handles, request_body, bedrock, response, response_body,
                   exc, calls, opens, outcome, failedAt, fs0, prev>>

\* variant whose handlers return 1 without printing
ExceptSilent ==
    /\ pc = "except"
    /\ exitCode' = 1
    /\ pc' = "exited"
    /\ UNCHANGED <<argv, fs, run, handles, request_body, bedrock, response, response_body,
                   exc, stdout, calls, opens, outcome, failedAt, fs0, prev>>

\* variant that calls invoke_model once more after a ClientError
ExceptRetry ==
    /\ pc = "except"
    /\ IF IsClientError(exc) /\ Len(calls) < 2
       THEN /\ pc' = "invoke"
            /\ exc' = NoExc
            /\ UNCHANGED <<stdout, exitCode>>
       ELSE /\ stdout' = Append(stdout,
                                IF IsClientError(exc) THEN ErrorLine("AWS API Error", exc)
                                ELSE ErrorLine("Unexpected Error", exc))
            /\ exitCode' = 1
            /\ pc' = "exited"
            /\ UNCHANGED exc
    /\ UNCHANGED <<argv, fs, run, handles, request_body, bedrock, response, response_body,
                   calls, opens, outcome, failedAt, fs0, prev>>

\* except ClientError as e: ... / except Exception as e: ...; return 1; sys.exit(1)
Except ==
    /\ pc = "except"
    /\ stdout' = Append(stdout,
                        IF IsClientError(exc) THEN ErrorLine("AWS API Error", exc)
                        ELSE ErrorLine("Unexpected Error", exc))
    /\ exitCode' = 1
    /\ pc' = "exited"
    /\ UNCHANGED <<argv, fs, run, handles, request_body, bedrock, response, response_body,
                   exc, calls, opens, outcome, failedAt, fs0, prev>>

\* the script is run again on the same command line; only the files remain
RunAgain ==
    /\ pc = "exited"
    /\ run < MaxRuns
    /\ run' = run + 1
    /\ prev' = [exitCode |-> exitCode, body |-> response,
                out |-> IF Len(argv) = 4 THEN fs[output_file] ELSE Absent]
    /\ fs0' = fs
    /\ pc' = "main"
    /\ handles' = {}
    /\ request_body' = None
    /\ bedrock' = NoClient
    /\ response' = NoBody
    /\ response_body' = None
    /\ exc' = NoExc
    /\ stdout' = <<>>
    /\ exitCode' = -1
    /\ calls' = <<>>
    /\ opens' = <<>>
    /\ outcome' = "none"
    /\ failedAt' = "none"
    /\ UNCHANGED <<argv, fs>>

Next ==
    \/ Main
    \/ OpenInput
    \/ LoadInput
    \/ CloseInput
    \/ CreateClient
    \/ InvokeModel
    \/ ParseResponse
    \/ OpenOutput
    \/ Dump
    \/ CloseOutput
    \/ PrintSuccess
    \/ Except
    \/ RunAgain

Spec == Init /\ [][Next]_vars

\* every step of the script completes: it is one sequential process, and the
\* calls it blocks on either return or raise
FairSpec == Spec /\ WF_vars(Next)

TypeOK ==
    /\ run \in 1..MaxRuns
    /\ exitCode \in {-1, 0, 1}
    /\ Len(stdout) <= 1

\* ------------------------------------------------------------------ claims
Passed   == Len(argv) = 4
Exited   == pc = "exited"
IsPrefix(a, b) == Len(a) <= Len(b) /\ a = SubSeq(b, 1, Len(a))
Opened(path, mode) == \E k \in 1..Len(opens) : opens[k] = Handle(path, mode)
CountOpens(mode) == Cardinality({k \in 1..Len(opens) : opens[k].mode = mode})

\* the failures the specification calls service-layer failures
ServiceLayerOutcomes == {"rejected", "network", "throttled", "unauthorized"}
\* those of them that the endpoint answers with an error response
ErrorResponseOutcomes == {"rejected", "throttled", "unauthorized"}
\* the steps at which a failure is a local one
LocalSteps == {"open_input", "load_input", "client", "parse_response", "open_output", "dump"}

\* C1, as stated: whenever invoke_model fails with a service-layer failure
\* (request rejected, network failure, throttling, authorization failure) the
\* run prints success=false, error="AWS API Error", details=str(e), exits 1.
C1_ServiceFailureIsApiError ==
    (Exited /\ outcome \in ServiceLayerOutcomes) =>
        /\ stdout = <<ErrorLine("AWS API Error", InvokeError(outcome))>>
        /\ exitCode = 1

\* C1, amended: whenever invoke_model fails because the endpoint answered with
\* an error response (request rejected, throttling, authorization failure) the
\* run prints success=false, error="AWS API Error", details=str(e) and exits
\* with 1; a network failure raised by the client layer is printed as
\* "Unexpected Error" with details=str(e), also with exit code 1.
C1_ErrorResponseIsApiError ==
    /\ (Exited /\ outcome \in ErrorResponseOutcomes) =>
          /\ stdout = <<[success |-> FALSE, error |-> "AWS API Error",
                         details |-> Str(InvokeError(outcome))]>>
          /\ Str(InvokeError(outcome)) # <<>>
          /\ exitCode = 1
    /\ (Exited /\ outcome = "network") =>
          /\ stdout = <<[success |-> FALSE, error |-> "Unexpected Error",
                         details |-> Str(InvokeError(outcome))]>>
          /\ exitCode = 1

C1_Witness == Exited /\ outcome = "throttled" /\ Len(stdout) = 1

\* C2: a failure at a step other than the remote call (reading or parsing the
\* input, creating the client, parsing the response, opening or writing the
\* output) ends the run with one line success=false, error="Unexpected Error",
\* a non-empty details, and exit code 1.
C2_LocalFailureIsUnexpected ==
    (Exited /\ failedAt \in LocalSteps) =>
        /\ Len(stdout) = 1
        /\ DOMAIN stdout[1] = {"success", "error", "details"}
        /\ stdout[1].success = FALSE
        /\ stdout[1].error = "Unexpected Error"
        /\ stdout[1].details = Str(exc)
        /\ stdout[1].details # <<>>
        /\ exitCode = 1

C2_Witness ==
    /\ Exited
    /\ failedAt = "load_input"
    /\ stdout = <<ErrorLine("Unexpected Error",
                            JSONDecodeError("Expecting property name enclosed in double quotes"))>>

\* C3: with an argument count other than three the run prints the usage
\* message and exits with 1, and at no point opens a file or calls the remote.
C3_UsageGate ==
    ~Passed =>
        /\ opens = <<>>
        /\ handles = {}
        /\ calls = <<>>
        /\ fs = fs0
        /\ pc \in {"main", "exited"}
        /\ Exited => (stdout = <<UsageLine>> /\ exitCode = 1)

C3_Witness == Exited /\ Len(argv) = 5 /\ stdout = <<UsageLine>>

\* C4: when no step fails, the output file holds the indented serialization of
\* the parsed response, stdout is exactly the success line, the exit code is 0;
\* the success line is printed only once the output is written and closed.
C4_SuccessPassthrough ==
    /\ (Exited /\ Passed /\ failedAt = "none") =>
          /\ fs[output_file] = JsonDumpIndent(JsonLoads(response).value)
          /\ response = <<LB, Lit("reply"), COLON, Lit("ok"), RB>> =>
                fs[output_file] = <<LB, NL, IND, Lit("reply"), COLON, SP, Lit("ok"), NL, RB>>
          /\ response = <<LB, Lit("reply"), COLON, Esc("nihao"), RB>> =>
                fs[output_file] = <<LB, NL, IND, Lit("reply"), COLON, SP, Lit("nihao"), NL, RB>>
          /\ stdout = <<SuccessLine>>
          /\ exitCode = 0
    /\ (stdout # <<>> /\ stdout[1] = SuccessLine) =>
          /\ handles = {}
          /\ fs[output_file] = JsonDumpIndent(response_body)

C4_Witness ==
    /\ Exited
    /\ exitCode = 0
    /\ response = <<LB, Lit("reply"), COLON, Esc("nihao"), RB>>
    /\ fs0[output_file] # Absent

\* C5: a run that passes the argument gate terminates, with exactly one JSON
\* status line printed, and exit code 0 exactly when that line says success.
C5_OneLineAndExitCode ==
    /\ [](Passed /\ ~Exited => stdout = <<>>)
    /\ [](Passed /\ Exited =>
            /\ Len(stdout) = 1
            /\ IsJsonLine(stdout[1])
            /\ exitCode \in {0, 1}
            /\ (exitCode = 0) <=> stdout[1].success)
    /\ ((Passed /\ pc = "open_input") ~> Exited)

C5_Witness == Passed /\ Exited /\ exitCode = 1 /\ IsClientError(exc) /\ run = 1

\* C6: nothing is retried: at most one invoke_model call, one open of the
\* input, one open of the output per run, and once a step has raised, no call,
\* no open and no write follows; the run ends with exit code 1.
C6_NoRetry ==
    /\ [](Len(calls) <= 1 /\ CountOpens("r") <= 1 /\ CountOpens("w") <= 1)
    /\ [](Exited /\ exc # NoExc => exitCode = 1)
    /\ [][(exc # NoExc /\ run' = run) =>
            /\ calls' = calls
            /\ opens' = opens
            /\ fs' = fs
            /\ exc' = exc
            /\ pc' \in {"except", "exited"}]_vars

C6_Witness == Exited /\ failedAt = "invoke" /\ Len(calls) = 1 /\ opens = <<Handle(input_file, "r")>>

\* C7: two successful runs in sequence that get the same response body leave
\* the same output file.
C7_Idempotent ==
    (run >= 2 /\ Exited /\ exitCode = 0 /\ prev.exitCode = 0 /\ prev.body = response) =>
        fs[output_file] = prev.out

C7_Witness ==
    /\ run = 2 /\ Exited /\ exitCode = 0 /\ prev.exitCode = 0 /\ prev.body = response
    /\ fs[output_file] = prev.out
    /\ Len(prev.out) > 1

\* C8: the input handle is released before the remote call, the output handle
\* before any status line is printed, at most one handle is open at a time and
\* none when the run has terminated.
C8_HandlesScoped ==
    /\ Cardinality(handles) <= 1
    /\ (pc = "invoke" \/ calls # <<>>) => ~(\E h \in handles : h.mode = "r")
    /\ (pc \in {"client", "parse_response", "open_output"}) => handles = {}
    /\ (pc \in {"except", "print_success"} \/ stdout # <<>>) => handles = {}
    /\ Exited => handles = {}

C8_Witness == pc = "except" /\ failedAt = "dump" /\ Opened(output_file, "w") /\ handles = {}

\* C9: when the write of the output fails, the run reports "Unexpected Error"
\* with exit code 1 and the output file stays as the write left it: present,
\* holding a strict prefix of the serialization (possibly empty).
C9_NoCleanup ==
    /\ [](failedAt = "dump" =>
            /\ fs[output_file] # Absent
            /\ IsPrefix(fs[output_file], JsonDumpIndent(response_body))
            /\ fs[output_file] # JsonDumpIndent(response_body))
    /\ [](Exited /\ failedAt = "dump" =>
            /\ stdout = <<ErrorLine("Unexpected Error", exc)>>
            /\ exitCode = 1)
    /\ [][(failedAt = "dump" /\ run' = run) => fs' = fs]_vars

C9_Witness ==
    /\ Exited /\ failedAt = "dump"
    /\ Len(fs[output_file]) > 0
    /\ fs0[output_file] \in FileTexts

\* C10: the output file is opened only after the input was read, the remote
\* call returned and the response was parsed; a run failing before that leaves
\* the output file as it was, and a failing input read makes no remote call.
C10_OutputUntouchedOnEarlyFailure ==
    /\ Passed /\ Opened(output_file, "w") =>
          /\ request_body # None
          /\ Len(calls) = 1
          /\ outcome = "ok"
          /\ response_body # None
    /\ Passed /\ ~Opened(output_file, "w") => fs[output_file] = fs0[output_file]
    /\ failedAt \in {"open_input", "load_input", "client", "invoke", "parse_response"} =>
          /\ ~Opened(output_file, "w")
          /\ fs = fs0
    /\ failedAt \in {"open_input", "load_input"} => calls = <<>>

C10_Witness ==
    /\ Exited /\ failedAt = "parse_response"
    /\ fs0[output_file] \in FileTexts
    /\ fs[output_file] = fs0[output_file]

====
